---- MODULE Spec2Model ----
(***************************************************************************)
(* The device polling client of rp2040-analog-to-udp-gauges:               *)
(*   src/src/backend.rs  ViewerBackend (connect, read, poll)               *)
(*   src/src/main.rs     the polling thread and the refresh thread, which  *)
(*                       share the backend through an Arc<RwLock<..>>.     *)
(*                                                                         *)
(* Time is counted in milliseconds.  One call of poll() is a sequence of   *)
(* steps of the polling thread (ppc is its position); everything the call  *)
(* does on the network is recorded in ops, and what it returns in result.  *)
(***************************************************************************)
EXTENDS Integers, Sequences, FiniteSets, TLC

\* ------------------------------------------------------------------ bounds
\* the clock runs from 0 to MaxTime milliseconds
MaxTime == 2
\* the device answers at most MaxPolls poll requests
MaxPolls == 2
\* the longest datagram the device sends
MaxDatagramLen == 9

\* ------------------------------------------------------- program constants
\* static POLL_DELAY: Duration = Duration::from_millis(1)
POLL_DELAY == 1
\* let mut buf = [0u8; 8]
BufLen == 8
\* the refresh threads main() spawns
NReaders == 1

Readers == 1..NReaders

\* the fields of AnalogValues, in declaration order
Field == <<"a0", "a1", "a2", "a3">>

\* AnalogValues { a0: 0, a1: 0, a2: 0, a3: 0 }
ZeroValues == [a0 |-> 0, a1 |-> 0, a2 |-> 0, a3 |-> 0]

\* ------------------------------------------------------------ the device
\* Byte i (from 1) of the two payloads the device is taken to send: an
\* all-zero one and one whose bytes differ inside every 16-bit field.
PayloadByte(p, i) ==
    IF p = 0 THEN 0 ELSE <<1, 2, 0, 3, 4, 0, 0, 5>>[((i - 1) % 8) + 1]

Payload(p, n) == [i \in 1..n |-> PayloadByte(p, i)]

Datagrams == { Payload(p, n) : p \in {0, 1}, n \in 0..MaxDatagramLen }

VARIABLES
    now,          \* the monotonic clock (Instant::now()), in ms
    analog_vals,  \* ViewerBackend.analog_vals
    last_poll,    \* ViewerBackend.last_poll
    polled_amt,   \* ViewerBackend.polled_amt
    initialized,  \* ViewerBackend.initialized
    ver,          \* per field: the number of the commit that wrote it (0: connect)
    wlocked,      \* the RwLock is held for writing (by the polling thread)
    rlocked,      \* the readers that hold the RwLock for reading
    poisoned,     \* the RwLock is poisoned (a holder of the write guard panicked)
    ppc,          \* position of the polling thread
    buf,          \* poll(): buf
    amt,          \* poll(): amt
    entry,        \* the backend's fields when the current poll() was entered, and
                  \* whether the call before it returned an error
    ops,          \* the network operations of the current poll(), in order
    result,       \* what the current poll() returned
    hadLive,      \* an earlier poll() call passed the rate limiter
    nCycles,      \* the poll() calls that returned Ok after a receive
    hist,         \* the readings they committed, in order
    nFull,        \* those among them whose response had BufLen bytes
    nInitOk,      \* the Init requests sent successfully
    everNonZero,  \* some poll() returned Ok after a receive with a reading not all zero
    plog,         \* the error the polling thread logged in this iteration
    rpc,          \* position of each refresh thread
    ridx,         \* the field a refresh thread copies next
    rres,         \* what read() returned to it
    snap,         \* the tuple (a0, a1, a2, a3) it copies
    snapVer,      \* per copied field: the commit it was read from
    rlog,         \* the error the refresh thread logged in this iteration
    dispatched    \* <<v>>: the values last handed to the event loop; <<>>: none yet

backendVars == <<analog_vals, last_poll, polled_amt, initialized>>
lockVars == <<wlocked, rlocked, poisoned>>
pollVars == <<ppc, buf, amt, entry, ops, result, hadLive, nCycles, hist, nFull, nInitOk,
              everNonZero, plog>>
readerVars == <<rpc, ridx, rres, snap, snapVer, rlog, dispatched>>
vars == <<now, backendVars, ver, lockVars, pollVars, readerVars>>

NoResult == [kind |-> "none", cached |-> FALSE, err |-> "none", vals |-> ZeroValues]
NoEntry == [analog_vals |-> ZeroValues, last_poll |-> 0, polled_amt |-> 0,
            initialized |-> FALSE, hadLive |-> FALSE, nInitOk |-> 0, at |-> 0,
            prevFailed |-> FALSE]

\* ViewerBackend::connect() followed by connect_socket(), both successful
\* (main() unwraps them before it spawns the threads).
Init ==
    /\ now = 0
    /\ analog_vals = ZeroValues
    /\ last_poll = 0
    /\ polled_amt = 0
    /\ initialized = FALSE
    /\ ver = [f \in {"a0", "a1", "a2", "a3"} |-> 0]
    /\ wlocked = FALSE
    /\ rlocked = {}
    /\ poisoned = FALSE
    /\ ppc = "loop"
    /\ buf = [i \in 1..BufLen |-> 0]
    /\ amt = 0
    /\ entry = NoEntry
    /\ ops = <<>>
    /\ result = NoResult
    /\ hadLive = FALSE
    /\ nCycles = 0
    /\ hist = <<>>
    /\ nFull = 0
    /\ nInitOk = 0
    /\ everNonZero = FALSE
    /\ plog = "none"
    /\ rpc = [r \in Readers |-> "loop"]
    /\ ridx = [r \in Readers |-> 1]
    /\ rres = [r \in Readers |-> "none"]
    /\ snap = [r \in Readers |-> ZeroValues]
    /\ snapVer = [r \in Readers |-> [f \in {"a0", "a1", "a2", "a3"} |-> 0]]
    /\ rlog = [r \in Readers |-> "none"]
    /\ dispatched = <<>>

\* The clock advances on its own.
Tick ==
    /\ now < MaxTime
    /\ now' = now + 1
    /\ UNCHANGED <<backendVars, ver, lockVars, pollVars, readerVars>>

\* ------------------------------------------------------------------ poll()
\* the comparison of the rate limiter turned round
RateLimited_Inverted == now - last_poll >= POLL_DELAY

\* self.last_poll.elapsed() < POLL_DELAY
RateLimited == now - last_poll < POLL_DELAY

\* u16::from_be_bytes([hi, lo])
from_be_bytes(hi, lo) == 256 * hi + lo

\* socket.recv(&mut buf) of datagram d into a zeroed buffer: the first BufLen
\* bytes of d, the rest of the buffer keeps its zeros.
Received(d) == [i \in 1..BufLen |-> IF i <= Len(d) THEN d[i] ELSE 0]

RecvAmt(d) == IF Len(d) < BufLen THEN Len(d) ELSE BufLen

\* values[i] = u16::from_be_bytes([buf[offs], buf[offs + 1]]); offs += 2
Decode(b) ==
    [a0 |-> from_be_bytes(b[1], b[2]), a1 |-> from_be_bytes(b[3], b[4]),
     a2 |-> from_be_bytes(b[5], b[6]), a3 |-> from_be_bytes(b[7], b[8])]

\* a write lock that does not wait for the readers
WriteLockFree_IgnoresReaders == ~wlocked

\* backend.write() of the polling loop
WriteLockFree == ~wlocked /\ rlocked = {}

\* loop { match backend.write().map(|mut wl| ...) }
P_Lock ==
    /\ ppc = "loop"
    /\ IF poisoned
       THEN /\ plog' = "error locking backend"
            /\ UNCHANGED <<wlocked, ppc>>
       ELSE /\ WriteLockFree
            /\ wlocked' = TRUE
            /\ ppc' = "poll"
            /\ plog' = "none"
    /\ UNCHANGED <<now, backendVars, ver, rlocked, poisoned, buf, amt, entry, ops,
                   result, hadLive, nCycles, hist, nFull, nInitOk, everNonZero, readerVars>>

\* a poll() that never sends Init
P_Enter_SkipsInit ==
    /\ ppc = "poll"
    /\ entry' = [analog_vals |-> analog_vals, last_poll |-> last_poll,
                 polled_amt |-> polled_amt, initialized |-> initialized,
                 hadLive |-> hadLive, nInitOk |-> nInitOk, at |-> now,
                 prevFailed |-> (result.kind = "Err")]
    /\ ops' = <<>>
    /\ IF RateLimited
       THEN /\ result' = [kind |-> "Ok", cached |-> TRUE, err |-> "none",
                          vals |-> analog_vals]
            /\ ppc' = "ret"
            /\ UNCHANGED hadLive
       ELSE /\ result' = NoResult
            /\ ppc' = "poll_send"
            /\ hadLive' = TRUE
    /\ UNCHANGED <<now, backendVars, ver, lockVars, buf, amt, nCycles, hist, nFull, nInitOk,
                   everNonZero, plog, readerVars>>

\* poll(), the rate limiter: return Ok(&self.analog_vals) or go on
P_Enter ==
    /\ ppc = "poll"
    /\ entry' = [analog_vals |-> analog_vals, last_poll |-> last_poll,
                 polled_amt |-> polled_amt, initialized |-> initialized,
                 hadLive |-> hadLive, nInitOk |-> nInitOk, at |-> now,
                 prevFailed |-> (result.kind = "Err")]
    /\ ops' = <<>>
    /\ IF RateLimited
       THEN /\ result' = [kind |-> "Ok", cached |-> TRUE, err |-> "none",
                          vals |-> analog_vals]
            /\ ppc' = "ret"
            /\ UNCHANGED hadLive
       ELSE /\ result' = NoResult
            /\ ppc' = IF initialized THEN "poll_send" ELSE "init_send"
            /\ hadLive' = TRUE
    /\ UNCHANGED <<now, backendVars, ver, lockVars, buf, amt, nCycles, hist, nFull, nInitOk,
                   everNonZero, plog, readerVars>>

\* the Init send without "self.initialized = true"
P_InitSend_KeepsUninitialized ==
    /\ ppc = "init_send"
    /\ ops' = Append(ops, "init")
    /\ \E ok \in BOOLEAN :
         IF ok
         THEN /\ nInitOk' = nInitOk + 1
              /\ ppc' = "poll_send"
              /\ UNCHANGED result
         ELSE /\ result' = [kind |-> "Err", cached |-> FALSE, err |-> "init_send",
                            vals |-> ZeroValues]
              /\ ppc' = "ret"
              /\ UNCHANGED nInitOk
    /\ UNCHANGED <<now, backendVars, ver, lockVars, buf, amt, entry, hadLive, nCycles, hist,
                   nFull, everNonZero, plog, readerVars>>

\* the Init send with "self.initialized = true" moved before the send
P_InitSend_SetsFlagFirst ==
    /\ ppc = "init_send"
    /\ ops' = Append(ops, "init")
    /\ initialized' = TRUE
    /\ \E ok \in BOOLEAN :
         IF ok
         THEN /\ nInitOk' = nInitOk + 1
              /\ ppc' = "poll_send"
              /\ UNCHANGED result
         ELSE /\ result' = [kind |-> "Err", cached |-> FALSE, err |-> "init_send",
                            vals |-> ZeroValues]
              /\ ppc' = "ret"
              /\ UNCHANGED nInitOk
    /\ UNCHANGED <<now, analog_vals, last_poll, polled_amt, ver, lockVars, buf, amt,
                   entry, hadLive, nCycles, hist, nFull, everNonZero, plog, readerVars>>

\* if !self.initialized { send_to(b"init")?; self.initialized = true; }
P_InitSend ==
    /\ ppc = "init_send"
    /\ ops' = Append(ops, "init")
    /\ \E ok \in BOOLEAN :
         IF ok
         THEN /\ initialized' = TRUE
              /\ nInitOk' = nInitOk + 1
              /\ ppc' = "poll_send"
              /\ UNCHANGED result
         ELSE /\ result' = [kind |-> "Err", cached |-> FALSE, err |-> "init_send",
                            vals |-> ZeroValues]
              /\ ppc' = "ret"
              /\ UNCHANGED <<initialized, nInitOk>>
    /\ UNCHANGED <<now, analog_vals, last_poll, polled_amt, ver, lockVars, buf, amt,
                   entry, hadLive, nCycles, hist, nFull, everNonZero, plog, readerVars>>

\* let mut buf = [0u8; 8]; self.socket.send_to(b"poll")?
P_PollSend ==
    /\ ppc = "poll_send"
    /\ ops' = Append(ops, "poll")
    /\ buf' = [i \in 1..BufLen |-> 0]
    /\ \E ok \in BOOLEAN :
         IF ok
         THEN /\ ppc' = "recv"
              /\ UNCHANGED result
         ELSE /\ result' = [kind |-> "Err", cached |-> FALSE, err |-> "poll_send",
                            vals |-> ZeroValues]
              /\ ppc' = "ret"
    /\ UNCHANGED <<now, backendVars, ver, lockVars, amt, entry, hadLive, nCycles, hist,
                   nFull, nInitOk, everNonZero, plog, readerVars>>

\* self.socket.recv(&mut buf): a datagram arrives
P_RecvOk ==
    /\ ppc = "recv"
    /\ nCycles < MaxPolls
    /\ \E d \in Datagrams :
         /\ buf' = Received(d)
         /\ amt' = RecvAmt(d)
    /\ ops' = Append(ops, "recv")
    /\ ppc' = "commit"
    /\ UNCHANGED <<now, backendVars, ver, lockVars, entry, result, hadLive, nCycles, hist,
                   nFull, nInitOk, everNonZero, plog, readerVars>>

\* self.socket.recv(&mut buf): the receive fails
P_RecvErr ==
    /\ ppc = "recv"
    /\ ops' = Append(ops, "recv")
    /\ ppc' = "reconnect"
    /\ UNCHANGED <<now, backendVars, ver, lockVars, buf, amt, entry, result, hadLive,
                   nCycles, hist, nFull, nInitOk, everNonZero, plog, readerVars>>

\* a reconnect that puts the client back to Uninitialized
P_Reconnect_Reinitializes ==
    /\ ppc = "reconnect"
    /\ ops' = Append(ops, "connect")
    /\ \E ok \in BOOLEAN :
         result' = [kind |-> "Err", cached |-> FALSE,
                    err |-> IF ok THEN "recv" ELSE "connect", vals |-> ZeroValues]
    /\ ppc' = "ret"
    /\ initialized' = FALSE
    /\ UNCHANGED <<now, analog_vals, last_poll, polled_amt, ver, lockVars, buf, amt, entry, hadLive, nCycles, hist,
                   nFull, nInitOk, everNonZero, plog, readerVars>>

\* a reconnect that takes the failed call for a poll
P_Reconnect_TouchesLastPoll ==
    /\ ppc = "reconnect"
    /\ ops' = Append(ops, "connect")
    /\ \E ok \in BOOLEAN :
         result' = [kind |-> "Err", cached |-> FALSE,
                    err |-> IF ok THEN "recv" ELSE "connect", vals |-> ZeroValues]
    /\ ppc' = "ret"
    /\ last_poll' = now
    /\ UNCHANGED <<now, analog_vals, polled_amt, initialized, ver, lockVars, buf, amt, entry, hadLive, nCycles, hist,
                   nFull, nInitOk, everNonZero, plog, readerVars>>

\* Err(e) => { self.socket.connect(..).map_err(..)?; Err(SocketError(e.to_string()))? }
P_Reconnect ==
    /\ ppc = "reconnect"
    /\ ops' = Append(ops, "connect")
    /\ \E ok \in BOOLEAN :
         result' = [kind |-> "Err", cached |-> FALSE,
                    err |-> IF ok THEN "recv" ELSE "connect", vals |-> ZeroValues]
    /\ ppc' = "ret"
    /\ UNCHANGED <<now, backendVars, ver, lockVars, buf, amt, entry, hadLive, nCycles, hist,
                   nFull, nInitOk, everNonZero, plog, readerVars>>

\* the decode loop, self.analog_vals = .., self.last_poll = Instant::now(),
\* self.polled_amt += 1, Ok(&self.analog_vals).  polled_amt is a u32; the
\* device answers at most MaxPolls times here, so the addition never overflows.
P_Commit ==
    /\ ppc = "commit"
    /\ analog_vals' = Decode(buf)
    /\ ver' = [f \in DOMAIN ver |-> nCycles + 1]
    /\ last_poll' = now
    /\ polled_amt' = polled_amt + 1
    /\ result' = [kind |-> "Ok", cached |-> FALSE, err |-> "none",
                  vals |-> Decode(buf)]
    /\ nCycles' = nCycles + 1
    /\ hist' = Append(hist, Decode(buf))
    /\ nFull' = IF amt = BufLen THEN nFull + 1 ELSE nFull
    /\ everNonZero' = (everNonZero \/ Decode(buf) # ZeroValues)
    /\ ppc' = "ret"
    /\ UNCHANGED <<now, initialized, lockVars, buf, amt, entry, ops, hadLive, nInitOk,
                   plog, readerVars>>

\* a polling loop that ends on the first error of poll()
P_Return_StopsOnError ==
    /\ ppc = "ret"
    /\ plog' = IF result.kind = "Err" THEN "error polling backend" ELSE plog
    /\ wlocked' = FALSE
    /\ ppc' = IF result.kind = "Err" THEN "stopped" ELSE "loop"
    /\ UNCHANGED <<now, backendVars, ver, rlocked, poisoned, buf, amt, entry, ops,
                   result, hadLive, nCycles, hist, nFull, nInitOk, everNonZero, readerVars>>

\* match wl.poll() { Ok(_) => {} Err(e) => log::error!("error polling backend") };
\* the write guard is dropped and the loop goes round
P_Return ==
    /\ ppc = "ret"
    /\ plog' = IF result.kind = "Err" THEN "error polling backend" ELSE plog
    /\ wlocked' = FALSE
    /\ ppc' = "loop"
    /\ UNCHANGED <<now, backendVars, ver, rlocked, poisoned, buf, amt, entry, ops,
                   result, hadLive, nCycles, hist, nFull, nInitOk, everNonZero, readerVars>>

Poller ==
    \/ P_Lock
    \/ P_Enter
    \/ P_InitSend
    \/ P_PollSend
    \/ P_RecvOk
    \/ P_RecvErr
    \/ P_Reconnect
    \/ P_Commit
    \/ P_Return

\* ------------------------------------------------------------------ read()
\* read() without the all-zero test
read_NoSentinel(vals) == "Ok"

\* match self.analog_vals { AnalogValues {0,0,0,0} => Err("no values read yet"),
\*                          _ => Ok(&self.analog_vals) }
read(vals) == IF vals = ZeroValues THEN "Err" ELSE "Ok"

\* a read lock that does not wait for the writer
ReadLockFree_IgnoresWriter == TRUE

\* backend.read() of the refresh loop
ReadLockFree == ~wlocked

\* loop { match backend.read().map(|be| ...) }
R_Lock(r) ==
    /\ rpc[r] = "loop"
    /\ IF poisoned
       THEN /\ rlog' = [rlog EXCEPT ![r] = "error locking backend"]
            /\ UNCHANGED <<rlocked, rpc>>
       ELSE /\ ReadLockFree
            /\ rlocked' = rlocked \cup {r}
            /\ rpc' = [rpc EXCEPT ![r] = "read"]
            /\ rlog' = [rlog EXCEPT ![r] = "none"]
    /\ UNCHANGED <<now, backendVars, ver, wlocked, poisoned, pollVars, ridx, rres,
                   snap, snapVer, dispatched>>

\* a refresh loop that takes its read for a poll
R_Read_Polls(r) ==
    /\ rpc[r] = "read"
    /\ rres' = [rres EXCEPT ![r] = read(analog_vals)]
    /\ rpc' = [rpc EXCEPT ![r] = IF read(analog_vals) = "Ok" THEN "copy" ELSE "unlock"]
    /\ ridx' = [ridx EXCEPT ![r] = 1]
    /\ last_poll' = now
    /\ UNCHANGED <<now, analog_vals, polled_amt, initialized, ver, lockVars, pollVars, snap, snapVer, rlog,
                   dispatched>>

\* be.read()
R_Read(r) ==
    /\ rpc[r] = "read"
    /\ rres' = [rres EXCEPT ![r] = read(analog_vals)]
    /\ rpc' = [rpc EXCEPT ![r] = IF read(analog_vals) = "Ok" THEN "copy" ELSE "unlock"]
    /\ ridx' = [ridx EXCEPT ![r] = 1]
    /\ UNCHANGED <<now, backendVars, ver, lockVars, pollVars, snap, snapVer, rlog,
                   dispatched>>

\* .map(|vals| (vals.a0 as i32, vals.a1 as i32, vals.a2 as i32, vals.a3 as i32)),
\* one field at a time
R_Copy(r) ==
    /\ rpc[r] = "copy"
    /\ snap' = [snap EXCEPT ![r][Field[ridx[r]]] = analog_vals[Field[ridx[r]]]]
    /\ snapVer' = [snapVer EXCEPT ![r][Field[ridx[r]]] = ver[Field[ridx[r]]]]
    /\ IF ridx[r] < Len(Field)
       THEN /\ ridx' = [ridx EXCEPT ![r] = ridx[r] + 1]
            /\ UNCHANGED rpc
       ELSE /\ rpc' = [rpc EXCEPT ![r] = "unlock"]
            /\ UNCHANGED ridx
    /\ UNCHANGED <<now, backendVars, ver, lockVars, pollVars, rres, rlog, dispatched>>

\* a refresh loop that dispatches although read() failed
R_Unlock_IgnoresReadError(r) ==
    /\ rpc[r] = "unlock"
    /\ rlocked' = rlocked \ {r}
    /\ IF rres[r] = "Ok"
       THEN /\ rpc' = [rpc EXCEPT ![r] = "dispatch"]
            /\ UNCHANGED rlog
       ELSE /\ rpc' = [rpc EXCEPT ![r] = "dispatch"]
            /\ rlog' = [rlog EXCEPT ![r] = "error reading backend"]
    /\ UNCHANGED <<now, backendVars, ver, wlocked, poisoned, pollVars, ridx, rres,
                   snap, snapVer, dispatched>>

\* a refresh loop that keeps the read guard
R_Unlock_KeepsGuard(r) ==
    /\ rpc[r] = "unlock"
    /\ rlocked' = rlocked
    /\ IF rres[r] = "Ok"
       THEN /\ rpc' = [rpc EXCEPT ![r] = "dispatch"]
            /\ UNCHANGED rlog
       ELSE /\ rpc' = [rpc EXCEPT ![r] = "loop"]
            /\ rlog' = [rlog EXCEPT ![r] = "error reading backend"]
    /\ UNCHANGED <<now, backendVars, ver, wlocked, poisoned, pollVars, ridx, rres,
                   snap, snapVer, dispatched>>

\* the closure returns and the read guard is dropped; then
\* Ok(Ok(v)) => v, Ok(Err(e)) => { log::error!("error reading backend"); continue }
R_Unlock(r) ==
    /\ rpc[r] = "unlock"
    /\ rlocked' = rlocked \ {r}
    /\ IF rres[r] = "Ok"
       THEN /\ rpc' = [rpc EXCEPT ![r] = "dispatch"]
            /\ UNCHANGED rlog
       ELSE /\ rpc' = [rpc EXCEPT ![r] = "loop"]
            /\ rlog' = [rlog EXCEPT ![r] = "error reading backend"]
    /\ UNCHANGED <<now, backendVars, ver, wlocked, poisoned, pollVars, ridx, rres,
                   snap, snapVer, dispatched>>

\* app.upgrade_in_event_loop(move |handle| { handle.set_a0(a0); ... })
R_Dispatch(r) ==
    /\ rpc[r] = "dispatch"
    /\ \E ok \in BOOLEAN :
         IF ok
         THEN /\ dispatched' = <<snap[r]>>
              /\ UNCHANGED rlog
         ELSE /\ rlog' = [rlog EXCEPT ![r] = "error updating frontend"]
              /\ UNCHANGED dispatched
    /\ rpc' = [rpc EXCEPT ![r] = "loop"]
    /\ UNCHANGED <<now, backendVars, ver, lockVars, pollVars, ridx, rres, snap,
                   snapVer>>

Refresh(r) ==
    \/ R_Lock(r)
    \/ R_Read(r)
    \/ R_Copy(r)
    \/ R_Unlock(r)
    \/ R_Dispatch(r)

Next ==
    \/ Tick
    \/ Poller
    \/ \E r \in Readers : Refresh(r)

Spec == Init /\ [][Next]_vars

\* The two loops run for ever.  The steps of both threads are taken under weak
\* fairness (the threads are scheduled), except the receive, which blocks
\* without a timeout until the device answers or the socket fails.  The write
\* lock is taken under strong fairness: a waiting writer is served although
\* the refresh loop takes and drops the read lock again and again.
FairSpec ==
    /\ Spec
    /\ SF_vars(P_Lock)
    /\ WF_vars(P_Enter)
    /\ WF_vars(P_InitSend)
    /\ WF_vars(P_PollSend)
    /\ WF_vars(P_Reconnect)
    /\ WF_vars(P_Commit)
    /\ WF_vars(P_Return)
    /\ \A r \in Readers : WF_vars(Refresh(r))

\* ------------------------------------------------------------- properties
Count(s, x) == Cardinality({i \in DOMAIN s : s[i] = x})

Sent(x) == \E i \in DOMAIN ops : ops[i] = x

\* the polling thread is inside poll(), past the rate limiter's test
InCall == ppc \in {"init_send", "poll_send", "recv", "reconnect", "commit", "ret"}

\* the current poll() was entered with less than POLL_DELAY elapsed
EnteredEarly == entry.at - entry.last_poll < POLL_DELAY

\* the current poll() has left the backend's fields as they were at entry
CacheUntouched ==
    /\ analog_vals = entry.analog_vals
    /\ last_poll = entry.last_poll
    /\ polled_amt = entry.polled_amt

\* the current poll() has returned after a successful receive
ReceivedAndReturned == ppc = "ret" /\ Sent("recv") /\ ~Sent("connect")

\* C1: a poll() entered with less than POLL_DELAY elapsed since last_poll is at
\* its return at once, returns Ok with the cached reading, has performed no
\* network operation and has left analog_vals, last_poll, polled_amt and
\* initialized as they were.
C1_RateLimitedPollReturnsCache ==
    (InCall /\ EnteredEarly) =>
        /\ ppc = "ret"
        /\ result.kind = "Ok"
        /\ result.vals = entry.analog_vals
        /\ ops = <<>>
        /\ CacheUntouched
        /\ initialized = entry.initialized

\* C1 witness: a rate-limited poll() has returned the all-zero reading of
\* connect() as Ok, no cycle having completed yet.
C1_Witness ==
    /\ ppc = "ret"
    /\ EnteredEarly
    /\ result.kind = "Ok"
    /\ result.vals = ZeroValues
    /\ nCycles = 0

\* C2 (as stated): every poll() that passes the rate limiter has, at its
\* return, sent exactly one Poll request and performed exactly one receive, and
\* has sent Init only if no earlier call passed the rate limiter.
C2_OneCycleInitOnlyInFirstCall ==
    (ppc = "ret" /\ ~EnteredEarly) =>
        /\ Count(ops, "poll") = 1
        /\ Count(ops, "recv") = 1
        /\ Sent("init") => ~entry.hadLive

\* C2 (amended): a poll() that passes the rate limiter sends at most one Poll
\* request and performs at most one receive; exactly one of each unless a send
\* fails: a failed Init send ends the call before the Poll send, a failed Poll
\* send ends it before the receive.  It sends Init (once, first) exactly when
\* no Init send has succeeded before the call.
C2_OneCycleUnlessSendFailsInitUntilSent ==
    (ppc = "ret" /\ ~EnteredEarly) =>
        /\ Count(ops, "init") = (IF entry.nInitOk = 0 THEN 1 ELSE 0)
        /\ Sent("init") => ops[1] = "init"
        /\ Count(ops, "poll") <= 1
        /\ Count(ops, "recv") <= 1
        /\ result.err = "init_send" => ~Sent("poll") /\ ~Sent("recv")
        /\ result.err = "poll_send" => Sent("poll") /\ ~Sent("recv")
        /\ result.err \notin {"init_send", "poll_send"} =>
               Count(ops, "poll") = 1 /\ Count(ops, "recv") = 1

\* C2 witness: a call later than the first one that passed the rate limiter
\* has sent Init and then completed one Poll request/response cycle.
C2_Witness ==
    /\ ppc = "ret"
    /\ entry.hadLive
    /\ Sent("init")
    /\ Count(ops, "poll") = 1
    /\ Count(ops, "recv") = 1
    /\ result.kind = "Ok"

\* C3 (as stated): a poll() whose receive failed has made exactly one reconnect
\* attempt and returns the receive failure, whatever the reconnect did.
C3_ReceiveFailureIsTheErrorReturned ==
    (ppc = "ret" /\ Sent("recv") /\ result.kind = "Err") =>
        /\ Count(ops, "connect") = 1
        /\ result.err = "recv"

\* C4: whatever the interleaving of the polling loop and the refresh loops, the
\* fields a refresh thread has copied in one pass under the read lock all come
\* from the same commit (or all from connect()), and while it holds the lock
\* they are the fields of the cached reading.
CopiedFields(r) ==
    IF rpc[r] = "copy" THEN {Field[i] : i \in 1..(ridx[r] - 1)}
    ELSE {Field[i] : i \in 1..Len(Field)}

C4_SnapshotFromOneCommit ==
    \A r \in Readers :
        /\ \A f, g \in CopiedFields(r) : snapVer[r][f] = snapVer[r][g]
        /\ (rpc[r] = "copy" \/ (rpc[r] = "unlock" /\ rres[r] = "Ok")) =>
               \A f \in CopiedFields(r) :
                   snap[r][f] = analog_vals[f] /\ snapVer[r][f] = ver[f]

\* C4 witness: a refresh thread is half way through copying the reading of the
\* first commit, under the read lock, while the polling loop is between two
\* polls and waits for the write lock.
C4_Witness ==
    \E r \in Readers :
        /\ rpc[r] = "copy"
        /\ ridx[r] = 3
        /\ snapVer[r]["a0"] = 1
        /\ r \in rlocked
        /\ ppc = "loop"

\* C5: as long as no poll() has returned Ok after a receive, read() fails:
\* the cached reading is the all-zero one, a refresh thread that has called
\* read() holds an error, and none has copied or dispatched a reading.
C5_ReadFailsBeforeFirstCycle ==
    nCycles = 0 =>
        /\ read(analog_vals) = "Err"
        /\ \A r \in Readers :
               /\ rpc[r] \notin {"copy", "dispatch"}
               /\ rpc[r] = "unlock" => rres[r] = "Err"

\* C5 witness: a refresh thread has called read() and got the error, after a
\* rate-limited poll() had already returned Ok and before any cycle completed.
C5_Witness ==
    \E r \in Readers :
        /\ rpc[r] = "unlock"
        /\ rres[r] = "Err"
        /\ nCycles = 0
        /\ result.kind = "Ok"

\* C6 (as stated): once a poll() has returned Ok after a receive with a reading
\* that is not all zero, read() succeeds.
C6_ReadSucceedsOnceNonZeroPolled ==
    everNonZero => read(analog_vals) = "Ok"

\* C7 (as stated): a poll() that received fewer than 8 bytes returns the
\* Truncated decode error and leaves the cached reading as it was.
C7_ShortResponseIsTruncated ==
    (ReceivedAndReturned /\ amt < BufLen) =>
        /\ result.kind = "Err"
        /\ result.err = "truncated"
        /\ analog_vals = entry.analog_vals

\* C8, the effect of one commit: a poll() that received 8 bytes b0..b7 has
\* replaced the cached reading by the four big-endian values, set last_poll to
\* an instant of the call, added one to polled_amt and returned the new reading.
C8_CommitEffect ==
    (ReceivedAndReturned /\ amt = BufLen) =>
        /\ analog_vals = [a0 |-> 256 * buf[1] + buf[2], a1 |-> 256 * buf[3] + buf[4],
                          a2 |-> 256 * buf[5] + buf[6], a3 |-> 256 * buf[7] + buf[8]]
        /\ last_poll >= entry.at
        /\ last_poll <= now
        /\ polled_amt = entry.polled_amt + 1
        /\ result.kind = "Ok"
        /\ result.vals = analog_vals

\* C8 (as stated): the effect of one commit, and polled_amt is the number of
\* poll() calls that completed a cycle with an 8-byte response.
C8_CounterCountsEightByteCycles ==
    /\ C8_CommitEffect
    /\ polled_amt = nFull

\* C9: a poll() whose Init send failed returns that error having sent nothing
\* but the Init request (no Poll request, no receive, no reconnect), with the
\* client still Uninitialized and analog_vals, last_poll and polled_amt as they
\* were; and after a successful Init send the client is Initialized before the
\* Poll request is sent.
C9_InitSendFailureAbortsThePoll ==
    /\ (InCall /\ ops = <<"init">>) =>
           \/ /\ ppc = "ret"
              /\ result.kind = "Err"
              /\ result.err = "init_send"
              /\ ~initialized
              /\ CacheUntouched
           \/ /\ ppc = "poll_send"
              /\ initialized
    /\ (ppc = "ret" /\ result.err = "init_send") => ops = <<"init">>
    /\ (InCall /\ Sent("poll")) => initialized

\* C9 witness: a poll() entered Uninitialized has returned the error of its
\* failed Init send.
C9_Witness ==
    /\ ppc = "ret"
    /\ ~entry.initialized
    /\ ops = <<"init">>
    /\ result.err = "init_send"
    /\ ~initialized

\* C10: no error ends a loop.  Whenever poll() has returned an error, the
\* polling loop logs it and is back at the head of the loop, and from the head
\* of the loop it calls poll() again; a refresh loop that got an error from
\* read() logs it and is back at the head of its loop.
PollFailed == ppc = "ret" /\ result.kind = "Err"

Committed(v) == \E n \in 1..Len(hist) : hist[n] = v

C11_OnlyCommittedReadingsDispatched ==
    /\ \A r \in Readers :
           rpc[r] = "dispatch" =>
               /\ rres[r] = "Ok"
               /\ rlog[r] = "none"
               /\ snap[r] # ZeroValues
               /\ snapVer[r]["a0"] \in 1..Len(hist)
               /\ snap[r] = hist[snapVer[r]["a0"]]
    /\ dispatched # <<>> =>
           /\ dispatched[1] # ZeroValues
           /\ Committed(dispatched[1])

\* C11 witness: after a reading was dispatched, a later pass of the refresh
\* loop got the error of read() (the cache is all zero again), logged it and
\* is back at the head of the loop; the dispatched reading is still the old one.
C11_Witness ==
    \E r \in Readers :
        /\ rpc[r] = "loop"
        /\ rlog[r] = "error reading backend"
        /\ dispatched # <<>>
        /\ analog_vals = ZeroValues

\* C12: a refresh thread holds the read lock only while it calls read() and
\* copies the fields, never at the dispatch, and always drops it again; and
\* the polling loop, waiting at the head of its loop, always gets the write
\* lock.
C12_ReadersLetTheWriterIn ==
    /\ [](\A r \in Readers : r \in rlocked => rpc[r] \in {"read", "copy", "unlock"})
    /\ \A r \in Readers : (r \in rlocked) ~> (r \notin rlocked)
    /\ (ppc = "loop") ~> wlocked

\* C12 witness: the polling loop waits for the write lock while a refresh
\* thread holds the read lock.
C12_Witness ==
    /\ ppc = "loop"
    /\ hadLive
    /\ \E r \in Readers : r \in rlocked /\ rpc[r] = "copy"

\* C13 (as stated): every failure of the last poll() is reported by the log of
\* the polling loop, and every failed read() by the log of the refresh loop.
FailuresOfCall ==
    {x \in {"init_send", "poll_send", "connect"} : result.err = x}
        \cup (IF Sent("connect") THEN {"recv"} ELSE {})

LoggedByPoller == IF plog = "error polling backend" THEN {result.err} ELSE {}

C13_EveryFailureIsLogged ==
    /\ ppc = "loop" => FailuresOfCall \subseteq LoggedByPoller
    /\ \A r \in Readers :
           (rpc[r] = "loop" /\ rres[r] = "Err") => rlog[r] = "error reading backend"

\* C14: inside one poll() the network operations are Init (only when entered
\* Uninitialized), Poll, receive, reconnect, in this order; a Poll request has
\* been sent only by an Initialized client whose Init send succeeded; and a
\* poll() that returns Ok has made no reconnect.
CallOrder == <<"init", "poll", "recv", "connect">>

IsPrefix(s, t) == Len(s) <= Len(t) /\ \A i \in 1..Len(s) : s[i] = t[i]

C14_InitThenPollThenReceive ==
    InCall =>
        /\ IF entry.initialized THEN IsPrefix(ops, Tail(CallOrder))
           ELSE IsPrefix(ops, CallOrder)
        /\ Sent("poll") => initialized /\ nInitOk >= 1
        /\ (ppc = "ret" /\ result.kind = "Ok") => ~Sent("connect")
        /\ ppc = "commit" => ~Sent("connect")

\* C14 witness: a poll() entered Uninitialized has sent Init, sent Poll, failed
\* to receive and reconnected.
C14_Witness ==
    /\ ppc = "ret"
    /\ ops = CallOrder
    /\ ~entry.initialized

\* C15: at most one Init send ever succeeds, from then on the client is
\* Initialized, and no later poll() sends Init, whatever failed before it.
C15_InitializedIsPermanent ==
    /\ nInitOk <= 1
    /\ nInitOk >= 1 => initialized
    /\ (InCall /\ entry.nInitOk >= 1) => entry.initialized /\ ~Sent("init")

\* C15 witness: after a successful Init send and a call that returned an
\* error, the next poll() has failed to receive and reconnected without
\* sending Init, and the client is Initialized.
C15_Witness ==
    /\ ppc = "ret"
    /\ entry.nInitOk = 1
    /\ entry.prevFailed
    /\ ops = <<"poll", "recv", "connect">>
    /\ initialized

\* C16: a poll() that returns an error has left analog_vals, last_poll and
\* polled_amt as they were and has not made the client Uninitialized; and the
\* poll() that follows a failed one passes the rate limiter and, at its
\* return, has performed a network operation.
C16_FailedPollChangesNothingAndIsRetried ==
    /\ (ppc = "ret" /\ result.kind = "Err") =>
           /\ CacheUntouched
           /\ entry.initialized => initialized
    /\ (InCall /\ entry.prevFailed) =>
           /\ ~EnteredEarly
           /\ ppc = "ret" => ops # <<>>

\* C16 witness: the poll() after a failed one has completed a cycle.
C16_Witness ==
    /\ ppc = "ret"
    /\ entry.prevFailed
    /\ result.kind = "Ok"
    /\ Sent("recv")

\* C17: a step that changes anything of a refresh thread, or the set of read
\* lock holders, changes neither the backend's fields nor the write lock; the
\* backend's fields change only in a step of poll() under the write lock.
C17_OnlyPollWritesTheBackend ==
    [][/\ (readerVars' # readerVars \/ rlocked' # rlocked) =>
              /\ backendVars' = backendVars
              /\ wlocked' = wlocked
       /\ backendVars' # backendVars =>
              /\ wlocked
              /\ ppc \in {"init_send", "commit"}]_vars

\* C17 witness: a refresh thread has read and copied the reading of a commit.
C17_Witness ==
    \E r \in Readers :
        /\ rpc[r] = "unlock"
        /\ rres[r] = "Ok"
        /\ snap[r] = analog_vals
        /\ polled_amt = 1

\* C18: while poll() waits in the receive the write lock is held and no
\* refresh thread holds the read lock or is past taking it; as long as the
\* receive does not complete, poll() has not returned, the lock stays held and
\* no refresh thread gets a result of read() or copies a field; only the
\* completion of the receive (a datagram or an error) ends the wait.
C18_ReceiveWaitsUnderTheWriteLock ==
    /\ [](ppc = "recv" =>
              /\ wlocked
              /\ rlocked = {}
              /\ \A r \in Readers : rpc[r] \in {"loop", "dispatch"})
    /\ [][ppc = "recv" =>
              \/ /\ ppc' = "recv"
                 /\ wlocked'
                 /\ UNCHANGED <<rlocked, rres, snap, result>>
              \/ /\ ppc' \in {"commit", "reconnect"}
                 /\ ops' = Append(ops, "recv")]_vars

\* C18 witness: poll() waits in the receive, holding the write lock, while a
\* refresh thread that has dispatched readings before is at the head of its
\* loop and cannot take the read lock.
C18_Witness ==
    /\ ppc = "recv"
    /\ wlocked
    /\ dispatched # <<>>
    /\ \E r \in Readers : rpc[r] = "loop"

====
